---- MODULE Spec2Model ----
(***************************************************************************)
(* Transaction processing engine of the banking ledger: the account store  *)
(* with its version-checked balance update, the transaction journal, the   *)
(* dispatch queue with its per-message retry loop, and the processor that  *)
(* applies deposits, withdrawals and transfers.  Every store or broker     *)
(* round trip is one atomic step; everything a handler does between two    *)
(* round trips is folded into the step that follows it.                    *)
(*                                                                         *)
(* Amounts and balances are integers (minor units).  The accounts table    *)
(* created by MigratePostgreSQL carries no CHECK on balance, so no such    *)
(* constraint takes part in UpdateBalance here.                            *)
(***************************************************************************)
EXTENDS Integers, Sequences, FiniteSets, TLC

\* ------------------------------------------------------------ bounds ----
MaxAmount == 1          \* request amounts are drawn from 0..MaxAmount
MaxCrashes == 1         \* processor crashes (each one redelivers a message)
MaxCancels == 1         \* CancelTransaction calls
MaxDeactivations == 1   \* DeactivateAccount calls

\* --------------------------------------------------- program constants ----
maxRetries == 3

\* ------------------------------------------------------------ universe ----
Procs == {"p1", "p2"}                 \* processor instances (consumers)
AccIDs == {"a1", "a2"}                \* rows of the accounts table
TxSeq == <<"t1", "t2">>               \* ids handed out by uuid.New, in order
TxIDs == {TxSeq[i] : i \in 1..Len(TxSeq)}
Nil == "nil"                          \* a nil *string / an absent message
InitBalance == [a1 |-> 1, a2 |-> 0]     \* opening balances
InitUserID == [a1 |-> "u1", a2 |-> "u2"]  \* owners of the two rows
AccSeq == <<"a3", "a4">>              \* ids uuid.New hands to new accounts

TransactionTypeDeposit == "deposit"
TransactionTypeWithdrawal == "withdrawal"
TransactionTypeTransfer == "transfer"

TransactionStatusPending == "pending"
TransactionStatusCompleted == "completed"
TransactionStatusFailed == "failed"
TransactionStatusCancelled == "cancelled"
Terminal == {TransactionStatusCompleted, TransactionStatusFailed, TransactionStatusCancelled}

ErrAccountNotFound == "account not found"
ErrInsufficientFunds == "insufficient funds"
ErrAccountInactive == "account is inactive"
ErrConcurrentUpdate == "concurrent update detected"
ErrTransactionNotFound == "transaction not found"
ErrInvalidAmount == "invalid amount"
ErrInvalidTransactionType == "invalid transaction type"
ErrMissingCurrency == "missing currency"
ErrMissingFromAccount == "missing from account"
ErrMissingToAccount == "missing to account"
ErrMissingAccounts == "missing from and to accounts"
ErrSameAccount == "from and to accounts cannot be the same"
ErrTransactionAlreadyProcessed == "transaction already processed"
ErrCurrencyMismatch == "currency mismatch"
ErrAccountExists == "account already exists"
ErrPublish == "failed to publish transaction"
OK == "ok"                            \* a nil error

\* Inputs of the submit operation in this workload.
ReqTypes == {TransactionTypeDeposit, TransactionTypeWithdrawal, TransactionTypeTransfer}
ReqCurrencies == {"USD"}
ReqAccounts == AccIDs \cup {Nil}
ReqAmounts == 0..MaxAmount

\* Inputs of the acceptance specification: every rule of IsValid can fail.
AnyTypes == ReqTypes \cup {"refund"}
AnyCurrencies == ReqCurrencies \cup {""}
AnyAmounts == (0 - 1)..MaxAmount

\* Inputs of CreateAccount: users with and without an account, a second
\* currency, the empty currency and a negative opening balance.
UserIDs == {"u1", "u2", "u3"}
OpenCurrencies == {"USD", "EUR", ""}
OpenBalances == (0 - 1)..MaxAmount

\* Inputs of the submit operation once a further account can exist.
SubmitAccounts == AccIDs \cup {AccSeq[1], Nil}
SubmitCurrencies == {"USD", "EUR"}

VARIABLES
    accounts,      \* accounts table: id -> [userID, balance, currency, status, version]
    journal,       \* transactions collection: id -> record, ids created so far
    queue,         \* the durable queue: sequence of published requests
    pc,            \* per processor: position in Subscribe / the handler
    msg,           \* per processor: the unacknowledged delivery (a request)
    attempt,       \* per processor: loop variable of processMessageWithRetry
    fromAccount,   \* per processor: account read by GetByID(FromAccountID)
    toAccount,     \* per processor: account read by GetByID(ToAccountID)
    err,           \* per processor: the error the current attempt ends with
    outcome,       \* per transaction id: "none", "acked" or "nacked"
    cancel,        \* the caller of CancelTransaction: [pc, id, res]
    deact,         \* the caller of DeactivateAccount: [pc, account, res]
    calls,         \* [crashes, cancels, deacts]: how many happened so far
    accept,        \* the caller of ProcessTransaction: [pc, request, res, status]
    creation,      \* the caller of CreateAccount: [request, res, account] of the last call
    seenStatus,    \* history: journal status when the current attempt began
    eff,           \* history: net balance change each transaction has made
    casWon,        \* history: <<account, expectedVersion>> of successful UpdateBalance calls
    casLost        \* history: <<account, expectedVersion>> of failed UpdateBalance calls

vars == <<accounts, journal, queue, pc, msg, attempt, fromAccount, toAccount,
          err, outcome, cancel, deact, calls, accept, creation, seenStatus, eff,
          casWon, casLost>>

procVars == <<pc, msg, attempt, fromAccount, toAccount, err, seenStatus>>
clientVars == <<cancel, deact, calls, accept, creation>>
history == <<eff, casWon, casLost>>

NoAccount == [id |-> Nil, userID |-> "", balance |-> 0, currency |-> "", status |-> "",
              version |-> 0]
NoMsg == [id |-> Nil, type |-> "", from |-> Nil, to |-> Nil, amount |-> 0, currency |-> ""]
NoCreation == [request |-> [userID |-> "", initialBalance |-> 0, currency |-> ""],
               res |-> "none", account |-> NoAccount]
NoAccept == [pc |-> "idle", request |-> NoMsg, res |-> "none", status |-> ""]

\* ------------------------------------------------------ pure functions ----

\* Validation that looks at the type and its accounts before the amount and
\* the currency.
IsValidTypeFirst(tr) ==
    IF tr.type = TransactionTypeDeposit /\ tr.to = Nil THEN ErrMissingToAccount
    ELSE IF tr.type = TransactionTypeWithdrawal /\ tr.from = Nil THEN ErrMissingFromAccount
    ELSE IF tr.type = TransactionTypeTransfer /\ (tr.from = Nil \/ tr.to = Nil)
         THEN ErrMissingAccounts
    ELSE IF tr.type = TransactionTypeTransfer /\ tr.from = tr.to THEN ErrSameAccount
    ELSE IF tr.type \notin {TransactionTypeDeposit, TransactionTypeWithdrawal,
                            TransactionTypeTransfer}
         THEN ErrInvalidTransactionType
    ELSE IF tr.amount <= 0 THEN ErrInvalidAmount
    ELSE IF tr.currency = "" THEN ErrMissingCurrency
    ELSE OK

\* Validation that accepts every request.
IsValidAlways(tr) == OK

\* TransactionRequest.IsValid
IsValid(tr) ==
    IF tr.amount <= 0 THEN ErrInvalidAmount
    ELSE IF tr.currency = "" THEN ErrMissingCurrency
    ELSE IF tr.type = TransactionTypeDeposit
         THEN (IF tr.to = Nil THEN ErrMissingToAccount ELSE OK)
    ELSE IF tr.type = TransactionTypeWithdrawal
         THEN (IF tr.from = Nil THEN ErrMissingFromAccount ELSE OK)
    ELSE IF tr.type = TransactionTypeTransfer
         THEN (IF tr.from = Nil \/ tr.to = Nil THEN ErrMissingAccounts
               ELSE IF tr.from = tr.to THEN ErrSameAccount
               ELSE OK)
    ELSE ErrInvalidTransactionType

\* PostgreSQLAccountRepository.GetByID: the row, or NoAccount for sql.ErrNoRows
GetByID(accs, id) ==
    IF id \in DOMAIN accs
    THEN [id |-> id, userID |-> accs[id].userID, balance |-> accs[id].balance,
          currency |-> accs[id].currency, status |-> accs[id].status,
          version |-> accs[id].version]
    ELSE NoAccount

\* WHERE id = $3 AND version = $4 of UpdateBalance (and of Update)
VersionMatchesAlways(accs, id, version) == id \in DOMAIN accs
VersionMatches(accs, id, version) ==
    id \in DOMAIN accs /\ accs[id].version = version

\* PostgreSQLAccountRepository.UpdateBalance: the table after the statement
\* (unchanged when no row matched, which the caller sees as ErrConcurrentUpdate)
UpdateBalanceKeepVersion(accs, id, newBalance, version) ==
    IF VersionMatches(accs, id, version)
    THEN [accs EXCEPT ![id].balance = newBalance]
    ELSE accs
UpdateBalance(accs, id, newBalance, version) ==
    IF VersionMatches(accs, id, version)
    THEN [accs EXCEPT ![id].balance = newBalance, ![id].version = @ + 1]
    ELSE accs

\* PostgreSQLAccountRepository.Update, as called by DeactivateAccount
Update(accs, account) ==
    IF VersionMatches(accs, account.id, account.version)
    THEN [accs EXCEPT ![account.id].userID = account.userID,
                      ![account.id].balance = account.balance,
                      ![account.id].currency = account.currency,
                      ![account.id].status = account.status,
                      ![account.id].version = @ + 1]
    ELSE accs

\* UNIQUE(user_id, currency) and the primary key of the accounts table: the
\* INSERT of this row is refused with unique_violation (23505)
UniqueViolationNever(accs, account) == FALSE
UniqueViolation(accs, account) ==
    \/ account.id \in DOMAIN accs
    \/ \E id \in DOMAIN accs :
           accs[id].userID = account.userID /\ accs[id].currency = account.currency

\* PostgreSQLAccountRepository.Create: the table after the INSERT, which sets
\* version 1 (unchanged when refused, which the caller sees as ErrAccountExists)
AccountCreate(accs, account) ==
    IF UniqueViolation(accs, account)
    THEN accs
    ELSE accs @@ (account.id :> [userID |-> account.userID, balance |-> account.balance,
                                 currency |-> account.currency, status |-> account.status,
                                 version |-> 1])

\* the checks AccountUseCase.CreateAccount makes on its arguments
CreateAccountCheckBalanceOnly(initialBalance, currency) ==
    IF initialBalance < 0 THEN ErrInvalidAmount ELSE OK
CreateAccountCheck(initialBalance, currency) ==
    IF initialBalance < 0 THEN ErrInvalidAmount
    ELSE IF currency = "" THEN ErrMissingCurrency
    ELSE OK

\* uuid.New for an account: the next unused id
NewAccountID(accs) == AccSeq[Cardinality(DOMAIN accs) - Cardinality(AccIDs) + 1]

\* the Account CreateAccount builds, as Create leaves it (Version = 1)
NewAccount(id, userID, initialBalance, currency) ==
    [id |-> id, userID |-> userID, balance |-> initialBalance, currency |-> currency,
     status |-> "active", version |-> 1]

\* an UpdateStatus that never sets processedAt
UpdateStatusNoProcessedAt(j, id, status, errorMessage) ==
    IF id \in DOMAIN j
    THEN [j EXCEPT ![id].status = status, ![id].errorMessage = errorMessage]
    ELSE j

\* UpdateStatus whose filter matches no document.
UpdateStatusNoMatch(j, id, status, errorMessage) == j

\* MongoTransactionRepository.UpdateStatus
UpdateStatus(j, id, status, errorMessage) ==
    IF id \in DOMAIN j
    THEN [j EXCEPT ![id].status = status,
                   ![id].errorMessage = errorMessage,
                   ![id].processedAt = IF status = TransactionStatusCompleted THEN TRUE ELSE @]
    ELSE j

\* the balance check of processWithdrawal and processTransfer
InsufficientFundsNever(account, amount) == FALSE
InsufficientFunds(account, amount) == account.balance < amount

\* a retry loop without an attempt bound
RetryAfterAlways(n) == TRUE
\* processMessageWithRetry: the loop runs the handler again after attempt n
\* failed (attempt++ ; attempt <= maxRetries)
RetryAfterNever(n) == FALSE
RetryAfter(n) == n + 1 <= maxRetries

\* uuid.New: the next unused id
NewID(j) == TxSeq[Cardinality(DOMAIN j) + 1]

\* the Transaction ProcessTransaction builds from a valid request
NewTransactionCompleted(request) ==
    [type |-> request.type, from |-> request.from, to |-> request.to,
     amount |-> request.amount, currency |-> request.currency,
     status |-> TransactionStatusCompleted, errorMessage |-> "", processedAt |-> FALSE]
NewTransaction(request) ==
    [type |-> request.type, from |-> request.from, to |-> request.to,
     amount |-> request.amount, currency |-> request.currency,
     status |-> TransactionStatusPending, errorMessage |-> "", processedAt |-> FALSE]

\* MongoTransactionRepository.Create: InsertOne
Create(j, id, transaction) == j @@ (id :> transaction)

\* the checks of processDeposit with the currency looked at before the status
DepositCheckCurrencyFirst(account, request) ==
    IF account = NoAccount THEN ErrAccountNotFound
    ELSE IF account.currency # request.currency THEN ErrCurrencyMismatch
    ELSE IF account.status # "active" THEN ErrAccountInactive
    ELSE OK

\* the checks processDeposit makes on the account it read
DepositCheck(account, request) ==
    IF account = NoAccount THEN ErrAccountNotFound
    ELSE IF account.status # "active" THEN ErrAccountInactive
    ELSE IF account.currency # request.currency THEN ErrCurrencyMismatch
    ELSE OK

\* the checks processWithdrawal makes on the account it read
WithdrawalCheck(account, request) ==
    IF account = NoAccount THEN ErrAccountNotFound
    ELSE IF account.status # "active" THEN ErrAccountInactive
    ELSE IF account.currency # request.currency THEN ErrCurrencyMismatch
    ELSE IF InsufficientFunds(account, request.amount) THEN ErrInsufficientFunds
    ELSE OK

\* the checks of processTransfer without the one on the account status
TransferCheckNoStatus(from, to, request) ==
    IF to = NoAccount THEN ErrAccountNotFound
    ELSE IF from.currency # request.currency \/ to.currency # request.currency
         THEN ErrCurrencyMismatch
    ELSE IF InsufficientFunds(from, request.amount) THEN ErrInsufficientFunds
    ELSE OK

\* the checks processTransfer makes once both accounts are read
TransferCheck(from, to, request) ==
    IF to = NoAccount THEN ErrAccountNotFound
    ELSE IF from.status # "active" \/ to.status # "active" THEN ErrAccountInactive
    ELSE IF from.currency # request.currency \/ to.currency # request.currency
         THEN ErrCurrencyMismatch
    ELSE IF InsufficientFunds(from, request.amount) THEN ErrInsufficientFunds
    ELSE OK

\* the version processTransfer passes to its rollback UpdateBalance
RollbackVersionStale(from) == from.version
RollbackVersion(from) == from.version + 1

\* the balance processTransfer passes to its rollback UpdateBalance
RollbackBalanceDouble(from, request) == from.balance + request.amount
RollbackBalance(from, request) == from.balance

\* ---------------------------------------------------------------- Init ----
Init ==
    /\ accounts = [a \in AccIDs |->
                     [userID |-> InitUserID[a], balance |-> InitBalance[a],
                      currency |-> "USD", status |-> "active", version |-> 1]]
    /\ journal = <<>>
    /\ queue = <<>>
    /\ pc = [p \in Procs |-> "idle"]
    /\ msg = [p \in Procs |-> NoMsg]
    /\ attempt = [p \in Procs |-> 0]
    /\ fromAccount = [p \in Procs |-> NoAccount]
    /\ toAccount = [p \in Procs |-> NoAccount]
    /\ err = [p \in Procs |-> OK]
    /\ outcome = [t \in TxIDs |-> "none"]
    /\ cancel = [pc |-> "idle", id |-> Nil, res |-> "none"]
    /\ deact = [pc |-> "idle", account |-> NoAccount, res |-> "none"]
    /\ calls = [crashes |-> 0, cancels |-> 0, deacts |-> 0]
    /\ accept = NoAccept
    /\ creation = NoCreation
    /\ seenStatus = [p \in Procs |-> "none"]
    /\ eff = [t \in TxIDs |-> [a \in AccIDs |-> 0]]
    /\ casWon = {}
    /\ casLost = {}

\* ---------------------------------------------------------- acceptance ----

\* TransactionUseCase.ProcessTransaction: validate, write the journal record
\* as pending, publish the request.  The insert and the publish are one step:
\* no processor can hold the message before it is published, and a cancel
\* between the two acts as a cancel on the queued message.
ProcessTransaction(type, from, to, amount, currency) ==
    LET request == [id |-> "", type |-> type, from |-> from, to |-> to,
                    amount |-> amount, currency |-> currency]
    IN  /\ Cardinality(DOMAIN journal) < Len(TxSeq)
        /\ IF IsValid(request) # OK
           THEN UNCHANGED <<journal, queue>>
           ELSE LET id == NewID(journal)
                IN  /\ journal' = Create(journal, id, NewTransaction(request))
                    /\ queue' = Append(queue, [request EXCEPT !.id = id])
        /\ UNCHANGED <<accounts, procVars, outcome, clientVars, history>>

\* TransactionUseCase.ProcessTransaction round trip by round trip, with its
\* caller.  First part: IsValid, uuid.New, the Transaction record and
\* transactionRepo.Create; an invalid request returns its error at once.
AcceptCreate(type, from, to, amount, currency) ==
    LET request == [id |-> "", type |-> type, from |-> from, to |-> to,
                    amount |-> amount, currency |-> currency]
    IN  /\ accept.pc = "idle"
        /\ Cardinality(DOMAIN journal) < Len(TxSeq)
        /\ IF IsValid(request) # OK
           THEN /\ accept' = [pc |-> "idle", request |-> request,
                              res |-> IsValid(request), status |-> ""]
                /\ UNCHANGED journal
           ELSE LET id == NewID(journal)
                    transaction == NewTransaction(request)
                IN  /\ journal' = Create(journal, id, transaction)
                    /\ accept' = [pc |-> "publish",
                                  request |-> [request EXCEPT !.id = id],
                                  res |-> "none", status |-> transaction.status]
        /\ UNCHANGED <<accounts, queue, procVars, outcome, cancel, deact, calls, creation,
                   history>>

\* ProcessTransaction, second part: queue.Publish succeeds and the
\* transaction built in the first part is returned.
AcceptPublish ==
    /\ accept.pc = "publish"
    /\ queue' = Append(queue, accept.request)
    /\ accept' = [accept EXCEPT !.pc = "idle", !.res = OK]
    /\ UNCHANGED <<accounts, journal, procVars, outcome, cancel, deact, calls, creation,
                   history>>

\* ProcessTransaction, second part: queue.Publish fails; the record is set
\* to failed and the caller gets the error and no transaction.
AcceptPublishFails ==
    /\ accept.pc = "publish"
    /\ journal' = UpdateStatus(journal, accept.request.id, TransactionStatusFailed,
                               ErrPublish)
    /\ accept' = [accept EXCEPT !.pc = "idle", !.res = ErrPublish, !.status = ""]
    /\ UNCHANGED <<accounts, queue, procVars, outcome, cancel, deact, calls, creation,
                   history>>

\* AccountUseCase.CreateAccount: the checks on the arguments, then one INSERT.
CreateAccount(userID, initialBalance, currency) ==
    LET request == [userID |-> userID, initialBalance |-> initialBalance,
                    currency |-> currency]
    IN  /\ Cardinality(DOMAIN accounts) < Cardinality(AccIDs) + Len(AccSeq)
        /\ IF CreateAccountCheck(initialBalance, currency) # OK
           THEN /\ creation' = [request |-> request,
                                res |-> CreateAccountCheck(initialBalance, currency),
                                account |-> NoAccount]
                /\ UNCHANGED accounts
           ELSE LET account == NewAccount(NewAccountID(accounts), userID,
                                          initialBalance, currency)
                IN  /\ accounts' = AccountCreate(accounts, account)
                    /\ creation' = IF UniqueViolation(accounts, account)
                                   THEN [request |-> request, res |-> ErrAccountExists,
                                         account |-> NoAccount]
                                   ELSE [request |-> request, res |-> OK,
                                         account |-> account]
        /\ UNCHANGED <<journal, queue, procVars, outcome, cancel, deact, calls, accept,
                       history>>

\* CancelTransaction: only a transaction read as pending may be cancelled
CancelAllowedAlways(transaction) == TRUE
CancelAllowed(transaction) == transaction.status = TransactionStatusPending

\* TransactionUseCase.CancelTransaction, first round trip: GetByID and the
\* status check.
CancelGet(id) ==
    /\ cancel.pc = "idle"
    /\ calls.cancels < MaxCancels
    /\ calls' = [calls EXCEPT !.cancels = @ + 1]
    /\ cancel' = IF id \notin DOMAIN journal
                 THEN [pc |-> "idle", id |-> id, res |-> ErrTransactionNotFound]
                 ELSE IF ~CancelAllowed(journal[id])
                 THEN [pc |-> "idle", id |-> id, res |-> ErrTransactionAlreadyProcessed]
                 ELSE [pc |-> "update", id |-> id, res |-> "none"]
    /\ UNCHANGED <<accounts, journal, queue, procVars, outcome, deact, accept, creation,
                   history>>

\* TransactionUseCase.CancelTransaction, second round trip: UpdateStatus.
CancelUpdate ==
    /\ cancel.pc = "update"
    /\ journal' = UpdateStatus(journal, cancel.id, TransactionStatusCancelled,
                               "Cancelled by user")
    /\ cancel' = [cancel EXCEPT !.pc = "idle", !.res = OK]
    /\ UNCHANGED <<accounts, queue, procVars, outcome, deact, calls, accept, creation,
                   history>>

\* AccountUseCase.DeactivateAccount, first round trip: GetByID.
DeactivateGet(id) ==
    /\ deact.pc = "idle"
    /\ calls.deacts < MaxDeactivations
    /\ calls' = [calls EXCEPT !.deacts = @ + 1]
    /\ LET account == GetByID(accounts, id)
       IN  deact' = IF account = NoAccount
                    THEN [pc |-> "idle", account |-> NoAccount, res |-> ErrAccountNotFound]
                    ELSE [pc |-> "update",
                          account |-> [account EXCEPT !.status = "inactive"],
                          res |-> "none"]
    /\ UNCHANGED <<accounts, journal, queue, procVars, outcome, cancel, accept, creation,
                   history>>

\* AccountUseCase.DeactivateAccount, second round trip: Update.
DeactivateUpdate ==
    /\ deact.pc = "update"
    /\ accounts' = Update(accounts, deact.account)
    /\ deact' = [pc |-> "idle", account |-> NoAccount,
                 res |-> IF VersionMatches(accounts, deact.account.id, deact.account.version)
                         THEN OK ELSE ErrConcurrentUpdate]
    /\ UNCHANGED <<journal, queue, procVars, outcome, cancel, calls, accept, creation,
                   history>>

\* ----------------------------------------------------------- processor ----

\* the local state of a consumer that holds no delivery
Reset(p) ==
    /\ msg' = [msg EXCEPT ![p] = NoMsg]
    /\ attempt' = [attempt EXCEPT ![p] = 0]
    /\ fromAccount' = [fromAccount EXCEPT ![p] = NoAccount]
    /\ toAccount' = [toAccount EXCEPT ![p] = NoAccount]
    /\ err' = [err EXCEPT ![p] = OK]
    /\ seenStatus' = [seenStatus EXCEPT ![p] = "none"]

\* the handler returns err before it wrote anything: next comes the
\* UpdateStatus(failed) of the handler closure
Fail(p, e) ==
    /\ pc' = [pc EXCEPT ![p] = "mark_failed"]
    /\ err' = [err EXCEPT ![p] = e]

\* one UpdateBalance round trip made for the delivery p holds
CAS(p, id, newBalance, version) ==
    /\ accounts' = UpdateBalance(accounts, id, newBalance, version)
    /\ eff' = [eff EXCEPT ![msg[p].id][id] =
                   @ + accounts'[id].balance - accounts[id].balance]
    /\ casWon' = IF VersionMatches(accounts, id, version)
                 THEN casWon \cup {<<id, version>>} ELSE casWon
    /\ casLost' = IF VersionMatches(accounts, id, version)
                  THEN casLost ELSE casLost \cup {<<id, version>>}

\* a consumer that reads its next delivery whatever it is doing
ConsumerFreeAlways(p) == TRUE

\* RabbitMQQueue.Subscribe: the one goroutine of a consumer reads the next
\* delivery from msgs only when the previous iteration of its loop has ended
\* with Ack or Nack (Qos prefetch count 1).
ConsumerFree(p) == pc[p] = "idle"

\* RabbitMQQueue.Subscribe: the consumer takes the next delivery (prefetch 1)
\* and enters processMessageWithRetry with attempt = 1.
Receive(p) ==
    /\ ConsumerFree(p)
    /\ queue # <<>>
    /\ msg' = [msg EXCEPT ![p] = Head(queue)]
    /\ queue' = Tail(queue)
    /\ attempt' = [attempt EXCEPT ![p] = 1]
    /\ pc' = [pc EXCEPT ![p] = "handler"]
    /\ UNCHANGED <<accounts, journal, fromAccount, toAccount, err, outcome,
                   clientVars, seenStatus, history>>

\* The handler of StartTransactionProcessor begins an attempt: Unmarshal,
\* ProcessTransactionSync (IsValid, dispatch by type) and the first GetByID
\* of processDeposit / processWithdrawal / processTransfer.
HandlerStart(p) ==
    /\ pc[p] = "handler"
    /\ seenStatus' = [seenStatus EXCEPT ![p] = journal[msg[p].id].status]
    /\ LET request == msg[p]
           to == GetByID(accounts, request.to)
           from == GetByID(accounts, request.from)
       IN  IF IsValid(request) # OK
           THEN Fail(p, IsValid(request)) /\ UNCHANGED <<fromAccount, toAccount>>
           ELSE IF request.type = TransactionTypeDeposit
           THEN /\ toAccount' = [toAccount EXCEPT ![p] = to]
                /\ UNCHANGED fromAccount
                /\ IF DepositCheck(to, request) # OK
                   THEN Fail(p, DepositCheck(to, request))
                   ELSE pc' = [pc EXCEPT ![p] = "deposit_update"] /\ UNCHANGED err
           ELSE IF request.type = TransactionTypeWithdrawal
           THEN /\ fromAccount' = [fromAccount EXCEPT ![p] = from]
                /\ UNCHANGED toAccount
                /\ IF WithdrawalCheck(from, request) # OK
                   THEN Fail(p, WithdrawalCheck(from, request))
                   ELSE pc' = [pc EXCEPT ![p] = "withdrawal_update"] /\ UNCHANGED err
           ELSE /\ fromAccount' = [fromAccount EXCEPT ![p] = from]
                /\ UNCHANGED toAccount
                /\ IF from = NoAccount
                   THEN Fail(p, ErrAccountNotFound)
                   ELSE pc' = [pc EXCEPT ![p] = "transfer_get_to"] /\ UNCHANGED err
    /\ UNCHANGED <<accounts, journal, queue, msg, attempt, outcome, clientVars, history>>

\* processDeposit: UpdateBalance(account.ID, account.Balance + Amount, account.Version)
DepositUpdate(p) ==
    /\ pc[p] = "deposit_update"
    /\ CAS(p, toAccount[p].id, toAccount[p].balance + msg[p].amount, toAccount[p].version)
    /\ IF VersionMatches(accounts, toAccount[p].id, toAccount[p].version)
       THEN pc' = [pc EXCEPT ![p] = "mark_completed"] /\ UNCHANGED err
       ELSE Fail(p, ErrConcurrentUpdate)
    /\ UNCHANGED <<journal, queue, msg, attempt, fromAccount, toAccount, outcome,
                   clientVars, seenStatus>>

\* processWithdrawal: UpdateBalance(account.ID, account.Balance - Amount, account.Version)
WithdrawalUpdate(p) ==
    /\ pc[p] = "withdrawal_update"
    /\ CAS(p, fromAccount[p].id, fromAccount[p].balance - msg[p].amount, fromAccount[p].version)
    /\ IF VersionMatches(accounts, fromAccount[p].id, fromAccount[p].version)
       THEN pc' = [pc EXCEPT ![p] = "mark_completed"] /\ UNCHANGED err
       ELSE Fail(p, ErrConcurrentUpdate)
    /\ UNCHANGED <<journal, queue, msg, attempt, fromAccount, toAccount, outcome,
                   clientVars, seenStatus>>

\* processTransfer: GetByID(ToAccountID) and the checks on both accounts
TransferGetTo(p) ==
    /\ pc[p] = "transfer_get_to"
    /\ LET to == GetByID(accounts, msg[p].to)
       IN  /\ toAccount' = [toAccount EXCEPT ![p] = to]
           /\ IF TransferCheck(fromAccount[p], to, msg[p]) # OK
              THEN Fail(p, TransferCheck(fromAccount[p], to, msg[p]))
              ELSE pc' = [pc EXCEPT ![p] = "transfer_debit"] /\ UNCHANGED err
    /\ UNCHANGED <<accounts, journal, queue, msg, attempt, fromAccount, outcome,
                   clientVars, seenStatus, history>>

\* processTransfer: UpdateBalance(fromAccount.ID, newFromBalance, fromAccount.Version)
TransferDebit(p) ==
    /\ pc[p] = "transfer_debit"
    /\ CAS(p, fromAccount[p].id, fromAccount[p].balance - msg[p].amount, fromAccount[p].version)
    /\ IF VersionMatches(accounts, fromAccount[p].id, fromAccount[p].version)
       THEN pc' = [pc EXCEPT ![p] = "transfer_credit"] /\ UNCHANGED err
       ELSE Fail(p, ErrConcurrentUpdate)
    /\ UNCHANGED <<journal, queue, msg, attempt, fromAccount, toAccount, outcome,
                   clientVars, seenStatus>>

\* processTransfer: UpdateBalance(toAccount.ID, newToBalance, toAccount.Version)
TransferCredit(p) ==
    /\ pc[p] = "transfer_credit"
    /\ CAS(p, toAccount[p].id, toAccount[p].balance + msg[p].amount, toAccount[p].version)
    /\ IF VersionMatches(accounts, toAccount[p].id, toAccount[p].version)
       THEN pc' = [pc EXCEPT ![p] = "mark_completed"] /\ UNCHANGED err
       ELSE /\ pc' = [pc EXCEPT ![p] = "transfer_rollback"]
            /\ err' = [err EXCEPT ![p] = ErrConcurrentUpdate]
    /\ UNCHANGED <<journal, queue, msg, attempt, fromAccount, toAccount, outcome,
                   clientVars, seenStatus>>

\* processTransfer, after the credit failed:
\* UpdateBalance(fromAccount.ID, fromAccount.Balance, fromAccount.Version+1),
\* its result dropped; the credit's error is returned.
TransferRollback(p) ==
    /\ pc[p] = "transfer_rollback"
    /\ CAS(p, fromAccount[p].id, RollbackBalance(fromAccount[p], msg[p]),
           RollbackVersion(fromAccount[p]))
    /\ pc' = [pc EXCEPT ![p] = "mark_failed"]
    /\ UNCHANGED <<journal, queue, msg, attempt, fromAccount, toAccount, err,
                   outcome, clientVars, seenStatus>>

\* processDeposit / processWithdrawal / processTransfer:
\* UpdateStatus(request.ID, completed, ""); the handler returns nil and
\* processMessageWithRetry returns nil.
MarkCompleted(p) ==
    /\ pc[p] = "mark_completed"
    /\ journal' = UpdateStatus(journal, msg[p].id, TransactionStatusCompleted, "")
    /\ pc' = [pc EXCEPT ![p] = "ack"]
    /\ UNCHANGED <<accounts, queue, msg, attempt, fromAccount, toAccount, err,
                   outcome, clientVars, seenStatus, history>>

\* The handler closure on error: UpdateStatus(request.ID, failed, err.Error())
\* and return err; processMessageWithRetry then sleeps and runs the handler
\* again while attempts remain, else returns the error.
MarkFailed(p) ==
    /\ pc[p] = "mark_failed"
    /\ journal' = UpdateStatus(journal, msg[p].id, TransactionStatusFailed, err[p])
    /\ IF RetryAfter(attempt[p])
       THEN /\ attempt' = [attempt EXCEPT ![p] = @ + 1]
            /\ pc' = [pc EXCEPT ![p] = "handler"]
       ELSE /\ pc' = [pc EXCEPT ![p] = "nack"]
            /\ UNCHANGED attempt
    /\ fromAccount' = [fromAccount EXCEPT ![p] = NoAccount]
    /\ toAccount' = [toAccount EXCEPT ![p] = NoAccount]
    /\ seenStatus' = [seenStatus EXCEPT ![p] = "none"]
    /\ err' = [err EXCEPT ![p] = OK]
    /\ UNCHANGED <<accounts, queue, msg, outcome, clientVars, history>>

\* Subscribe: msg.Ack(false) after processMessageWithRetry returned nil
Ack(p) ==
    /\ pc[p] = "ack"
    /\ outcome' = [outcome EXCEPT ![msg[p].id] = "acked"]
    /\ pc' = [pc EXCEPT ![p] = "idle"]
    /\ Reset(p)
    /\ UNCHANGED <<accounts, journal, queue, clientVars, history>>

\* Subscribe: msg.Nack(false, false) after processMessageWithRetry failed
Nack(p) ==
    /\ pc[p] = "nack"
    /\ outcome' = [outcome EXCEPT ![msg[p].id] = "nacked"]
    /\ pc' = [pc EXCEPT ![p] = "idle"]
    /\ Reset(p)
    /\ UNCHANGED <<accounts, journal, queue, clientVars, history>>

\* A processor dies while it holds an unacknowledged delivery (durable queue,
\* auto-ack off): the broker requeues the delivery and the restarted processor
\* subscribes again.
Crash(p) ==
    /\ pc[p] # "idle"
    /\ calls.crashes < MaxCrashes
    /\ calls' = [calls EXCEPT !.crashes = @ + 1]
    /\ queue' = <<msg[p]>> \o queue
    /\ pc' = [pc EXCEPT ![p] = "idle"]
    /\ Reset(p)
    /\ UNCHANGED <<accounts, journal, outcome, cancel, deact, accept, creation,
                   history>>

\* ------------------------------------------------------- specification ----

\* the submit operation with its inputs
Submit ==
    \E type \in ReqTypes, from \in ReqAccounts, to \in ReqAccounts,
       amount \in ReqAmounts, currency \in ReqCurrencies :
         ProcessTransaction(type, from, to, amount, currency)

\* one step of processor p
Processor(p) ==
    \/ Receive(p)
    \/ HandlerStart(p)
    \/ DepositUpdate(p)
    \/ WithdrawalUpdate(p)
    \/ TransferGetTo(p)
    \/ TransferDebit(p)
    \/ TransferCredit(p)
    \/ TransferRollback(p)
    \/ MarkCompleted(p)
    \/ MarkFailed(p)
    \/ Ack(p)
    \/ Nack(p)

\* Concurrent processing: every processor instance, submissions and account
\* deactivation.
Next ==
    \/ Submit
    \/ \E id \in AccIDs : DeactivateGet(id)
    \/ DeactivateUpdate
    \/ \E p \in Procs : Processor(p)

Spec == Init /\ [][Next]_vars

\* One processor instance with cancellation, account deactivation and
\* redelivery after a crash.
NextSingle ==
    \/ Submit
    \/ \E id \in TxIDs : CancelGet(id)
    \/ CancelUpdate
    \/ \E id \in AccIDs : DeactivateGet(id)
    \/ DeactivateUpdate
    \/ Processor("p1")
    \/ Crash("p1")

SpecSingle == Init /\ [][NextSingle]_vars

\* Acceptance alone, observed at its caller, under every kind of request.
NextAccept ==
    \/ \E type \in AnyTypes, from \in ReqAccounts, to \in ReqAccounts,
          amount \in AnyAmounts, currency \in AnyCurrencies :
            AcceptCreate(type, from, to, amount, currency)
    \/ AcceptPublish
    \/ AcceptPublishFails

SpecAccept == Init /\ [][NextAccept]_vars

\* The whole pipeline with acceptance taken round trip by round trip: the
\* caller of ProcessTransaction, one processor instance, account deactivation.
NextPipeline ==
    \/ \E type \in ReqTypes, from \in ReqAccounts, to \in ReqAccounts,
          amount \in ReqAmounts, currency \in ReqCurrencies :
            AcceptCreate(type, from, to, amount, currency)
    \/ AcceptPublish
    \/ AcceptPublishFails
    \/ Processor("p1")
    \/ \E id \in AccIDs : DeactivateGet(id)
    \/ DeactivateUpdate

SpecPipeline == Init /\ [][NextPipeline]_vars

\* The account store under account creation and deactivation.
NextAccounts ==
    \/ \E userID \in UserIDs, initialBalance \in OpenBalances,
          currency \in OpenCurrencies :
            CreateAccount(userID, initialBalance, currency)
    \/ \E id \in AccIDs : DeactivateGet(id)
    \/ DeactivateUpdate

SpecAccounts == Init /\ [][NextAccounts]_vars

\* Submission against an account store that grows: CreateAccount for a
\* second currency beside ProcessTransaction taken round trip by round trip.
NextSubmit ==
    \/ \E userID \in UserIDs, currency \in SubmitCurrencies :
            CreateAccount(userID, 0, currency)
    \/ \E type \in ReqTypes, from \in AccIDs, to \in SubmitAccounts,
          currency \in SubmitCurrencies :
            AcceptCreate(type, from, to, MaxAmount, currency)
    \/ AcceptPublish
    \/ AcceptPublishFails

SpecSubmit == Init /\ [][NextSubmit]_vars

\* One processor instance and account deactivation under requests that also
\* name an account that does not exist and a currency no account has.
NextRequests ==
    \/ \E type \in ReqTypes, from \in SubmitAccounts, to \in SubmitAccounts,
          currency \in SubmitCurrencies :
            ProcessTransaction(type, from, to, MaxAmount, currency)
    \/ \E id \in AccIDs : DeactivateGet(id)
    \/ DeactivateUpdate
    \/ Processor("p1")

SpecRequests == Init /\ [][NextRequests]_vars

\* Concurrent processing with the scheduling the runtime gives: a processor
\* that can take a step (a delivery is waiting or in its hands) eventually
\* takes one.
SpecFair == Spec /\ \A p \in Procs : WF_vars(Processor(p))

TypeOK ==
    /\ \A a \in AccIDs : accounts[a].version >= 1
    /\ DOMAIN journal \subseteq TxIDs
    /\ \A p \in Procs : attempt[p] \in 0..maxRetries

\* ------------------------------------------------------------ helpers ----
RECURSIVE SumOver(_, _)
SumOver(f, S) ==
    IF S = {} THEN 0
    ELSE LET x == CHOOSE y \in S : TRUE IN f[x] + SumOver(f, S \ {x})

Balances == [a \in AccIDs |-> accounts[a].balance]

\* amount of transaction t if it has the given type and is completed, else 0
CompletedAmount(type) ==
    [t \in DOMAIN journal |->
        IF journal[t].type = type /\ journal[t].status = TransactionStatusCompleted
        THEN journal[t].amount ELSE 0]

\* no message is queued or in flight
Quiescent == queue = <<>> /\ \A p \in Procs : pc[p] = "idle"

\* the positions at which a processor is about to call UpdateBalance, and the
\* account and expected version that call carries
CASPcs == {"deposit_update", "withdrawal_update", "transfer_debit",
           "transfer_credit", "transfer_rollback"}
CASAccount(p) ==
    IF pc[p] \in {"deposit_update", "transfer_credit"}
    THEN toAccount[p].id ELSE fromAccount[p].id
CASVersion(p) ==
    IF pc[p] \in {"deposit_update", "transfer_credit"} THEN toAccount[p].version
    ELSE IF pc[p] = "transfer_rollback" THEN RollbackVersion(fromAccount[p])
    ELSE fromAccount[p].version
\* the new balance that call carries
CASBalance(p) ==
    IF pc[p] \in {"deposit_update", "transfer_credit"}
    THEN toAccount[p].balance + msg[p].amount
    ELSE IF pc[p] = "transfer_rollback" THEN RollbackBalance(fromAccount[p], msg[p])
    ELSE fromAccount[p].balance - msg[p].amount
\* The order in which one attempt of the handler passes its positions: it
\* only moves to a position with a lower number.
PcRank ==
    [idle |-> 0, ack |-> 1, nack |-> 1, mark_completed |-> 2, mark_failed |-> 2,
     transfer_rollback |-> 3, transfer_credit |-> 4, transfer_debit |-> 5,
     deposit_update |-> 6, withdrawal_update |-> 6, transfer_get_to |-> 6,
     handler |-> 7]
\* what is left of the delivery p holds: the attempts still to come, each
\* worth a whole pass, and the rest of the current attempt
Remaining(p) == (maxRetries - attempt[p]) * 8 + PcRank[pc[p]]
\* p makes its UpdateBalance call in this step
CASStep(p) == pc[p] \in CASPcs /\ pc'[p] # pc[p] /\ pc'[p] # "idle"

\* ------------------------------------------------------------- claims ----

\* C1: in every reachable state every account's balance is >= 0.
C1_BalanceNonNegative == \A a \in AccIDs : accounts[a].balance >= 0

\* C1 witness: a withdrawal or transfer has just been refused for insufficient
\* funds on an account that a competing debit has drained to exactly 0.
C1_Witness ==
    \E p \in Procs :
        /\ pc[p] = "mark_failed"
        /\ err[p] = ErrInsufficientFunds
        /\ fromAccount[p].id = "a1"
        /\ accounts["a1"].balance = 0
        /\ <<"a1", 1>> \in casWon

\* C2 (as claimed): the balance effect of every transaction is applied at most
\* once: its net effect on an account is 0 or the single credit or debit its
\* type prescribes.
C2_AppliedAtMostOnce ==
    \A t \in DOMAIN journal : \A a \in AccIDs :
        LET tx == journal[t]
            credited == tx.type \in {TransactionTypeDeposit, TransactionTypeTransfer} /\ tx.to = a
            debited == tx.type \in {TransactionTypeWithdrawal, TransactionTypeTransfer} /\ tx.from = a
        IN  eff[t][a] \in {0} \cup (IF credited THEN {tx.amount} ELSE {})
                              \cup (IF debited THEN {0 - tx.amount} ELSE {})

\* C3 (as claimed): of two UpdateBalance calls on the same account that carry
\* the same expectedVersion exactly one succeeds: a call whose twin already
\* succeeded fails, and a call whose twin already failed succeeds.
C3_ExactlyOneAsClaimed ==
    [][\A p \in Procs :
         CASStep(p) =>
            LET a == CASAccount(p)
                v == CASVersion(p)
            IN  /\ <<a, v>> \in casWon => accounts' = accounts
                /\ <<a, v>> \in casLost => accounts'[a].version = accounts[a].version + 1]_vars

\* C3 (amended): at most one UpdateBalance call per account and expectedVersion
\* succeeds: a call arriving while the stored version equals its
\* expectedVersion succeeds and advances the version, and from then on every
\* call carrying that expectedVersion fails with ConcurrentUpdate and changes
\* nothing.
C3_AtMostOneSucceeds ==
    [][\A p \in Procs :
         CASStep(p) =>
            LET a == CASAccount(p)
                v == CASVersion(p)
            IN  /\ accounts[a].version = v =>
                     /\ accounts'[a].version = v + 1
                     /\ (pc[p] # "transfer_rollback" => err'[p] = OK)
                /\ <<a, v>> \in casWon =>
                     /\ accounts' = accounts
                     /\ (pc[p] # "transfer_rollback" => err'[p] = ErrConcurrentUpdate)]_vars

\* C3 witness: two processors called UpdateBalance on the same account with
\* the same expectedVersion; one has won and the other holds ConcurrentUpdate.
C3_Witness ==
    \E p, q \in Procs :
        /\ p # q
        /\ pc[p] = "mark_completed" /\ pc[q] = "mark_failed"
        /\ msg[p].type = TransactionTypeDeposit /\ msg[q].type = TransactionTypeDeposit
        /\ toAccount[p].id = toAccount[q].id
        /\ toAccount[p].version = toAccount[q].version
        /\ err[q] = ErrConcurrentUpdate
        /\ <<toAccount[p].id, toAccount[p].version>> \in casWon \cap casLost

\* C4 (as claimed): a journal status that is completed, failed or cancelled
\* never changes again.
C4_TerminalIsFinal ==
    [][\A t \in DOMAIN journal :
         journal[t].status \in Terminal => journal'[t].status = journal[t].status]_vars

\* C5 (as claimed): whenever no message is queued or in flight, the sum of all
\* balances equals the opening sum plus the completed deposits minus the
\* completed withdrawals (all accounts share one currency here).
C5_Conservation ==
    Quiescent =>
        SumOver(Balances, AccIDs) =
            SumOver(InitBalance, AccIDs)
              + SumOver(CompletedAmount(TransactionTypeDeposit), DOMAIN journal)
              - SumOver(CompletedAmount(TransactionTypeWithdrawal), DOMAIN journal)

\* C6 (as claimed): the compensation of a failed transfer credits the debited
\* amount back onto the source, whatever happened to the source since the
\* debit: the rollback step raises the stored balance by the amount.
C6_CompensationRestores ==
    [][\A p \in Procs :
         pc[p] = "transfer_rollback" /\ pc'[p] = "mark_failed" =>
            accounts'[msg[p].from].balance
                = accounts[msg[p].from].balance + msg[p].amount]_vars

\* C7: a transfer whose credit fails, with no other writer on the source
\* between its debit and its rollback, leaves the destination untouched by the
\* credit, puts the source back at exactly the balance read before the
\* transfer, and is marked failed when the attempt ends.
C7_RollbackExact ==
    [][\A p \in Procs :
         /\ pc[p] = "transfer_credit" /\ pc'[p] = "transfer_rollback" =>
              accounts' = accounts
         /\ ( /\ pc[p] = "transfer_rollback" /\ pc'[p] = "mark_failed"
              /\ accounts[fromAccount[p].id].version = fromAccount[p].version + 1 ) =>
              /\ accounts'[fromAccount[p].id].balance = fromAccount[p].balance
              /\ \A a \in AccIDs \ {fromAccount[p].id} : accounts'[a] = accounts[a]
              /\ err'[p] # OK
         /\ ( /\ pc[p] = "mark_failed" /\ pc'[p] \in {"handler", "nack"}
              /\ msg[p].type = TransactionTypeTransfer ) =>
              journal'[msg[p].id].status = TransactionStatusFailed]_vars

\* C7 witness: the credit failed, the rollback went through, and the source is
\* back at the balance read before the transfer, two versions later.
C7_Witness ==
    \E p \in Procs :
        /\ pc[p] = "mark_failed"
        /\ msg[p].type = TransactionTypeTransfer
        /\ <<toAccount[p].id, toAccount[p].version>> \in casLost
        /\ <<fromAccount[p].id, fromAccount[p].version + 1>> \in casWon
        /\ accounts[fromAccount[p].id].balance = fromAccount[p].balance
        /\ accounts[fromAccount[p].id].version = fromAccount[p].version + 2

\* C8 (as claimed): an attempt that began when the journal status was already
\* terminal changes no account and no journal record, and does not end in a
\* negative acknowledgment.
C8_TerminalIsNoOp ==
    [][\A p \in Procs :
         seenStatus[p] \in Terminal /\ pc'[p] # pc[p] =>
            /\ accounts' = accounts
            /\ journal' = journal
            /\ pc'[p] # "nack"]_vars

\* C9 (as claimed): once a transaction was cancelled while its message was
\* still waiting, its first handler attempt mutates no account and the status
\* stays cancelled.
C9_CancelledNeverApplied ==
    [][\A p \in Procs :
         ( /\ attempt[p] = 1
           /\ seenStatus[p] = TransactionStatusCancelled
           /\ pc'[p] # pc[p] ) =>
            /\ \A a \in AccIDs : accounts'[a].balance = accounts[a].balance
            /\ journal'[msg[p].id].status = TransactionStatusCancelled]_vars

\* C10: CancelTransaction answers TransactionNotFound for an unknown id and
\* TransactionAlreadyProcessed for a record it reads as not pending, changing
\* nothing in either case; for a record it reads as pending it goes on to set
\* the status to cancelled.
C10_CancelOutcome ==
    [][/\ (cancel.pc = "idle" /\ cancel' # cancel) =>
            LET id == cancel'.id
            IN  /\ journal' = journal
                /\ id \notin DOMAIN journal =>
                     cancel'.pc = "idle" /\ cancel'.res = ErrTransactionNotFound
                /\ (id \in DOMAIN journal /\ journal[id].status # TransactionStatusPending) =>
                     cancel'.pc = "idle" /\ cancel'.res = ErrTransactionAlreadyProcessed
                /\ (id \in DOMAIN journal /\ journal[id].status = TransactionStatusPending) =>
                     cancel'.pc = "update"
       /\ (cancel.pc = "update" /\ cancel'.pc = "idle") =>
            /\ journal'[cancel.id].status = TransactionStatusCancelled
            /\ \A t \in DOMAIN journal \ {cancel.id} : journal'[t] = journal[t]
            /\ cancel'.res = OK]_vars

\* C10 witness: a cancel of a transaction the processor had already finished
\* was answered TransactionAlreadyProcessed.
C10_Witness ==
    /\ cancel.pc = "idle"
    /\ cancel.res = ErrTransactionAlreadyProcessed
    /\ cancel.id \in DOMAIN journal
    /\ journal[cancel.id].status \in {TransactionStatusCompleted, TransactionStatusFailed}

\* C11 (as claimed): a cancel never overwrites a status written by the
\* processor: the write of CancelTransaction lands only on a record that is
\* still pending, so no record goes from completed or failed to cancelled.
C11_CancelNeverOverwrites ==
    [][(cancel.pc = "update" /\ cancel'.pc = "idle") =>
          journal[cancel.id].status = TransactionStatusPending]_vars

\* C12: every successful UpdateBalance call of a processor changes the stored
\* balance of its account by exactly the amount of its transaction (credit,
\* debit or compensation), relative to the balance stored just before it,
\* touches no other account, and a debit succeeds only against funds that are
\* in the stored balance at that moment.
C12_WriteAppliesExactAmount ==
    [][\A p \in Procs :
         (CASStep(p) /\ accounts' # accounts) =>
            LET a == CASAccount(p)
                credit == pc[p] \in {"deposit_update", "transfer_credit", "transfer_rollback"}
            IN  /\ accounts'[a].balance - accounts[a].balance
                     = IF credit THEN msg[p].amount ELSE 0 - msg[p].amount
                /\ \A b \in AccIDs \ {a} : accounts'[b] = accounts[b]
                /\ ~credit => accounts[a].balance >= msg[p].amount]_vars

\* C12 witness: two withdrawals read the same funds of a1; one has been paid
\* and the other lost the race with ConcurrentUpdate.
C12_Witness ==
    \E p, q \in Procs :
        /\ p # q
        /\ msg[p].type = TransactionTypeWithdrawal /\ msg[q].type = TransactionTypeWithdrawal
        /\ fromAccount[p] = fromAccount[q] /\ fromAccount[p].id = "a1"
        /\ pc[p] = "mark_completed"
        /\ pc[q] = "mark_failed" /\ err[q] = ErrConcurrentUpdate
        /\ accounts["a1"].balance = 0

\* C13: with no writer on the account since it was read, a deposit (a
\* withdrawal covered by the balance) on an active account of the request's
\* currency passes the checks, changes the balance by exactly +amount
\* (-amount), raises the version by exactly 1, and the status is then set to
\* completed.
C13_UncontendedApplies ==
    [][\A p \in Procs :
         LET request == msg[p]
             single == request.type \in {TransactionTypeDeposit, TransactionTypeWithdrawal}
             a == IF request.type = TransactionTypeDeposit THEN request.to ELSE request.from
             sign == IF request.type = TransactionTypeDeposit THEN 1 ELSE 0 - 1
         IN  /\ ( /\ pc[p] = "handler" /\ pc'[p] # pc[p] /\ single
                  /\ accounts[a].status = "active"
                  /\ accounts[a].currency = request.currency
                  /\ (request.type = TransactionTypeWithdrawal =>
                          accounts[a].balance >= request.amount) ) =>
                  pc'[p] \in {"deposit_update", "withdrawal_update"}
             /\ ( /\ pc[p] \in {"deposit_update", "withdrawal_update"} /\ pc'[p] # pc[p]
                  /\ accounts[a].version = CASVersion(p) ) =>
                  /\ accounts'[a].balance = accounts[a].balance + sign * request.amount
                  /\ accounts'[a].version = accounts[a].version + 1
                  /\ pc'[p] = "mark_completed"
             /\ (pc[p] = "mark_completed" /\ pc'[p] # pc[p]) =>
                  journal'[request.id].status = TransactionStatusCompleted]_vars

\* C13 witness: the withdrawal of the whole balance of a1 is completed, with
\* the balance at 0 one version later.
C13_Witness ==
    \E t \in DOMAIN journal :
        /\ journal[t].type = TransactionTypeWithdrawal
        /\ journal[t].status = TransactionStatusCompleted
        /\ eff[t]["a1"] = 0 - 1
        /\ accounts["a1"].balance = 0 /\ accounts["a1"].version = 2

\* C14: an attempt at a withdrawal whose amount exceeds the balance it reads
\* (active account, matching currency) ends with InsufficientFunds, writes
\* status failed with that error to the journal, and changes no account.
C14_InsufficientFundsFails ==
    [][\A p \in Procs :
         /\ ( /\ pc[p] = "handler" /\ pc'[p] # pc[p]
              /\ msg[p].type = TransactionTypeWithdrawal
              /\ accounts[msg[p].from].status = "active"
              /\ accounts[msg[p].from].currency = msg[p].currency
              /\ accounts[msg[p].from].balance < msg[p].amount ) =>
              /\ pc'[p] = "mark_failed" /\ err'[p] = ErrInsufficientFunds
              /\ accounts' = accounts
         /\ ( /\ pc[p] = "mark_failed" /\ pc'[p] # pc[p]
              /\ err[p] = ErrInsufficientFunds ) =>
              /\ journal'[msg[p].id].status = TransactionStatusFailed
              /\ journal'[msg[p].id].errorMessage = ErrInsufficientFunds
              /\ accounts' = accounts]_vars

\* C14 witness: a withdrawal from the empty account a2 is recorded as failed
\* with InsufficientFunds and a2 is as it was opened.
C14_Witness ==
    \E t \in DOMAIN journal :
        /\ journal[t].type = TransactionTypeWithdrawal /\ journal[t].from = "a2"
        /\ journal[t].status = TransactionStatusFailed
        /\ journal[t].errorMessage = ErrInsufficientFunds
        /\ accounts["a2"].balance = 0 /\ accounts["a2"].version = 1

\* C15 (as claimed): an attempt that ended with InsufficientFunds,
\* AccountInactive or CurrencyMismatch is final: once the failure is recorded
\* the handler is not run again for that message.
C15_PermanentNotRetried ==
    [][\A p \in Procs :
         ( /\ pc[p] = "mark_failed"
           /\ err[p] \in {ErrInsufficientFunds, ErrAccountInactive, ErrCurrencyMismatch} ) =>
            pc'[p] # "handler"]_vars

\* C16 (as claimed): a deposit or withdrawal that loses a CAS race repeats its
\* read-compute-write cycle at the point of failure, so a transaction that
\* succeeds on a later cycle is completed without its journal status ever
\* having been failed: no record goes from failed with ConcurrentUpdate to
\* completed.
C16_CASRetriedInPlace ==
    [][\A t \in DOMAIN journal :
         ( /\ journal[t].type \in {TransactionTypeDeposit, TransactionTypeWithdrawal}
           /\ journal[t].status = TransactionStatusFailed
           /\ journal[t].errorMessage = ErrConcurrentUpdate ) =>
            journal'[t].status # TransactionStatusCompleted]_vars

\* C17: for each delivery the handler runs at most 3 times and stops at its
\* first success; the message is acknowledged exactly when an attempt
\* succeeded, otherwise negatively acknowledged, without requeue, after the
\* 3rd failure; one delivery gets exactly one of ack and nack.
C17_RetryAndAck ==
    [][\A p \in Procs :
         /\ (pc'[p] = "handler" /\ pc[p] # "handler") =>
              /\ attempt'[p] \in 1..3
              /\ \/ pc[p] = "idle" /\ attempt'[p] = 1
                 \/ pc[p] = "mark_failed" /\ attempt'[p] = attempt[p] + 1
         /\ (pc[p] = "mark_completed" /\ pc'[p] # pc[p]) => pc'[p] = "ack"
         /\ (pc[p] = "mark_failed" /\ pc'[p] # pc[p]) =>
              pc'[p] = IF attempt[p] < 3 THEN "handler" ELSE "nack"
         /\ (pc'[p] = "ack" /\ pc[p] # "ack") => pc[p] = "mark_completed"
         /\ (pc'[p] = "nack" /\ pc[p] # "nack") => pc[p] = "mark_failed" /\ attempt[p] = 3
         /\ (pc[p] \in {"ack", "nack"} /\ pc'[p] # pc[p]) =>
              /\ outcome[msg[p].id] = "none"
              /\ outcome'[msg[p].id] = IF pc[p] = "ack" THEN "acked" ELSE "nacked"
              /\ \A t \in TxIDs \ {msg[p].id} : outcome'[t] = outcome[t]
              /\ pc'[p] = "idle" /\ queue' = queue]_vars

\* C17 witness: one message was acknowledged after a success and another was
\* negatively acknowledged after its third failed attempt.
C17_Witness ==
    \E t, u \in DOMAIN journal :
        /\ outcome[t] = "acked" /\ journal[t].status = TransactionStatusCompleted
        /\ outcome[u] = "nacked" /\ journal[u].status = TransactionStatusFailed

\* The rules of validation as an ordered list of (rule fails, error) pairs, and
\* the error of the first rule that fails.
ValidationRules(r) ==
    << <<r.amount <= 0, ErrInvalidAmount>>,
       <<r.currency = "", ErrMissingCurrency>>,
       <<r.type = TransactionTypeDeposit /\ r.to = Nil, ErrMissingToAccount>>,
       <<r.type = TransactionTypeWithdrawal /\ r.from = Nil, ErrMissingFromAccount>>,
       <<r.type = TransactionTypeTransfer /\ (r.from = Nil \/ r.to = Nil),
         ErrMissingAccounts>>,
       <<r.type = TransactionTypeTransfer /\ r.from = r.to, ErrSameAccount>>,
       <<r.type \notin {TransactionTypeDeposit, TransactionTypeWithdrawal,
                        TransactionTypeTransfer}, ErrInvalidTransactionType>>,
       <<TRUE, OK>> >>

FirstFailingRule(r) ==
    LET rules == ValidationRules(r)
        i == CHOOSE n \in 1..Len(rules) :
                 rules[n][1] /\ \A m \in 1..(n - 1) : ~rules[m][1]
    IN  rules[i][2]

\* C18: validation answers every request with the error of the first failing
\* rule in the order amount, currency, then the rules of the type (deposit
\* needs a to-account, withdrawal a from-account, transfer both and different
\* ones, any other type is invalid), and with ok when no rule fails. Seen at
\* the caller of acceptance: a request with a failing rule gets exactly that
\* error, a request with none is never answered with a validation error.
C18_FirstFailingRuleWins ==
    accept.request # NoMsg =>
        LET e == FirstFailingRule(accept.request)
        IN  IF e # OK
            THEN accept.res = e
            ELSE accept.res \in {"none", OK, ErrPublish}

\* C18 witness: a request that breaks the amount rule, the currency rule and the
\* type rule at once was answered with the error of the amount rule.
C18_Witness ==
    /\ accept.request # NoMsg
    /\ accept.request.amount <= 0
    /\ accept.request.currency = ""
    /\ accept.request.type \notin ReqTypes
    /\ accept.res = ErrInvalidAmount

\* C19: a call of acceptance with a request that fails validation returns the
\* validation error and changes neither the journal nor the queue.
C19_InvalidLeavesNoTrace ==
    [][(accept.pc = "idle" /\ accept' # accept
            /\ FirstFailingRule(accept'.request) # OK) =>
          /\ accept'.pc = "idle"
          /\ accept'.res = FirstFailingRule(accept'.request)
          /\ journal' = journal
          /\ queue' = queue]_vars

\* C19 witness: after one request was accepted and published, a transfer from
\* an account to itself was refused and the journal still holds one record and
\* the queue one message.
C19_Witness ==
    /\ accept.pc = "idle"
    /\ accept.res = ErrSameAccount
    /\ Cardinality(DOMAIN journal) = 1
    /\ Len(queue) = 1

\* C20: acceptance writes the journal record, with status pending, before it
\* publishes: the publish step finds the record of its message pending, every
\* message in the queue or held by a processor has a journal record, and a
\* successful call returns a transaction with status pending.
C20_RecordBeforeMessage ==
    /\ \A i \in 1..Len(queue) : queue[i].id \in DOMAIN journal
    /\ \A p \in Procs : pc[p] # "idle" => msg[p].id \in DOMAIN journal
    /\ accept.pc = "publish" =>
          /\ accept.request.id \in DOMAIN journal
          /\ journal[accept.request.id].status = TransactionStatusPending
          /\ \A i \in 1..Len(queue) : queue[i].id # accept.request.id
          /\ \A p \in Procs : pc[p] # "idle" => msg[p].id # accept.request.id
    /\ accept.res = OK => accept.status = TransactionStatusPending

\* C20 witness: a call returned successfully, one message is held by a
\* processor and another one waits in the queue.
C20_Witness ==
    /\ accept.res = OK
    /\ accept.status = TransactionStatusPending
    /\ pc["p1"] # "idle"
    /\ Len(queue) = 1

\* C21: whenever a message is about to be negatively
\* acknowledged, the journal record of its transaction has status failed and a
\* non-empty errorMessage.
C21_NackedIsFailed ==
    \A p \in Procs :
        pc[p] = "nack" =>
            /\ journal[msg[p].id].status = TransactionStatusFailed
            /\ journal[msg[p].id].errorMessage # ""

\* C22: an account's version never decreases; it grows by exactly 1 in every
\* successful mutation of the account (an UpdateBalance of a deposit, a
\* withdrawal, a transfer leg or a compensation, and the Update of
\* DeactivateAccount) and by 0 in every failed one, which changes nothing.
C22_VersionCountsMutations ==
    [][/\ \A a \in AccIDs :
            /\ accounts'[a].version >= accounts[a].version
            /\ accounts'[a] # accounts[a] =>
                 accounts'[a].version = accounts[a].version + 1
       /\ \A p \in Procs :
            (CASStep(p) /\ pc[p] # "transfer_rollback") =>
                LET a == CASAccount(p)
                IN  IF pc'[p] \in {"mark_completed", "transfer_credit"}
                    THEN accounts'[a].version = accounts[a].version + 1
                    ELSE accounts' = accounts
       /\ (deact.pc = "update" /\ deact'.pc = "idle") =>
            IF deact'.res = OK
            THEN accounts'[deact.account.id].version =
                     accounts[deact.account.id].version + 1
            ELSE accounts' = accounts]_vars

\* C22 witness: account a1 has been deactivated and has had a balance update,
\* each of which raised its version, and one UpdateBalance on it has failed.
C22_Witness ==
    /\ accounts["a1"].status = "inactive"
    /\ accounts["a1"].version = 3
    /\ \E v \in 1..3 : <<"a1", v>> \in casWon
    /\ \E v \in 1..3 : <<"a1", v>> \in casLost

C24_PairUnique ==
    /\ [](\A a, b \in DOMAIN accounts :
            (accounts[a].userID = accounts[b].userID
                /\ accounts[a].currency = accounts[b].currency) => a = b)
    /\ [][/\ (/\ creation' # creation
              /\ creation'.request.initialBalance >= 0
              /\ creation'.request.currency # ""
              /\ \E a \in DOMAIN accounts :
                     /\ accounts[a].userID = creation'.request.userID
                     /\ accounts[a].currency = creation'.request.currency) =>
                 /\ creation'.res = ErrAccountExists
                 /\ accounts' = accounts
          /\ \A n \in DOMAIN accounts' \ DOMAIN accounts :
                 \A a \in DOMAIN accounts :
                     \/ accounts[a].userID # accounts'[n].userID
                     \/ accounts[a].currency # accounts'[n].currency]_vars

\* C24 witness: user u1 holds a USD and a EUR account, and a further
\* CreateAccount(u1, EUR) has been refused with AccountExists.
C24_Witness ==
    /\ creation.res = ErrAccountExists
    /\ creation.request.userID = "u1" /\ creation.request.currency = "EUR"
    /\ \E a, b \in DOMAIN accounts :
           /\ accounts[a].userID = "u1" /\ accounts[a].currency = "USD"
           /\ accounts[b].userID = "u1" /\ accounts[b].currency = "EUR"

\* C25: CreateAccount with a negative initial balance returns InvalidAmount,
\* with an empty currency (and a balance that is not negative) MissingCurrency,
\* and creates nothing in either case; a call that creates an account returns
\* and stores it with the given userID and currency, the initial balance as
\* balance, status active and version 1, and touches no other row.
C25_CreateAccountContract ==
    [][creation' # creation =>
         LET r == creation'.request
             a == creation'.account
         IN  IF r.initialBalance < 0
             THEN creation'.res = ErrInvalidAmount /\ a = NoAccount /\ accounts' = accounts
             ELSE IF r.currency = ""
             THEN creation'.res = ErrMissingCurrency /\ a = NoAccount /\ accounts' = accounts
             ELSE /\ creation'.res \in {OK, ErrAccountExists}
                  /\ creation'.res = OK =>
                       /\ a.userID = r.userID /\ a.currency = r.currency
                       /\ a.balance = r.initialBalance
                       /\ a.status = "active" /\ a.version = 1
                       /\ a.id \notin DOMAIN accounts
                       /\ DOMAIN accounts' = DOMAIN accounts \cup {a.id}
                       /\ GetByID(accounts', a.id) = a
                       /\ \A b \in DOMAIN accounts : accounts'[b] = accounts[b]]_vars

\* C25 witness: one call was refused for an empty currency after another had
\* created an account that opened with balance 1.
C25_Witness ==
    /\ creation.res = ErrMissingCurrency
    /\ creation.request.initialBalance >= 0
    /\ \E a \in DOMAIN accounts \ AccIDs :
           accounts[a] = [userID |-> "u3", balance |-> 1, currency |-> "EUR",
                          status |-> "active", version |-> 1]

\* C26: a withdrawal whose amount exceeds the current balance of its source
\* account is rejected when it is submitted: ProcessTransaction returns an
\* error and accepts nothing.
C26_OverdraftRejectedAtSubmission ==
    [][(/\ accept.pc = "idle" /\ accept' # accept
        /\ accept'.request.type = TransactionTypeWithdrawal
        /\ accept'.request.from \in DOMAIN accounts
        /\ accept'.request.amount > accounts[accept'.request.from].balance) =>
          /\ accept'.pc = "idle"
          /\ accept'.res \notin {"none", OK}
          /\ journal' = journal]_vars

\* C27: a transfer between two accounts of different currencies, the request
\* carrying the currency of the source, is rejected when it is submitted:
\* ProcessTransaction returns an error and accepts nothing.
C27_CrossCurrencyRejectedAtSubmission ==
    [][(/\ accept.pc = "idle" /\ accept' # accept
        /\ accept'.request.type = TransactionTypeTransfer
        /\ accept'.request.from \in DOMAIN accounts
        /\ accept'.request.to \in DOMAIN accounts
        /\ accept'.request.currency = accounts[accept'.request.from].currency
        /\ accounts[accept'.request.to].currency
               # accounts[accept'.request.from].currency) =>
          /\ accept'.pc = "idle"
          /\ accept'.res \notin {"none", OK}
          /\ journal' = journal]_vars

\* the errors a processing attempt ends with when it has changed no balance
PlainErrors ==
    {ErrAccountNotFound, ErrInsufficientFunds, ErrAccountInactive, ErrConcurrentUpdate,
     ErrCurrencyMismatch, ErrInvalidAmount, ErrInvalidTransactionType,
     ErrMissingCurrency, ErrMissingFromAccount, ErrMissingToAccount,
     ErrMissingAccounts, ErrSameAccount}

\* C28: when the compensating write of a failed transfer has not been
\* completed, so that the source stays debited and the destination is not
\* credited, the transaction is marked failed with an error message that
\* describes this unresolved partial state: a message no attempt that changed
\* nothing ends with.
C28_PartialStateSurfaced ==
    [][\A p \in Procs :
         (/\ pc[p] = "mark_failed" /\ pc'[p] \in {"handler", "nack"}
          /\ msg[p].type = TransactionTypeTransfer
          /\ eff[msg[p].id][msg[p].from] < 0
          /\ eff[msg[p].id][msg[p].to] = 0) =>
            /\ journal'[msg[p].id].status = TransactionStatusFailed
            /\ journal'[msg[p].id].errorMessage \notin PlainErrors]_vars

\* C29: with the stores and the queue reachable and every processor scheduled
\* fairly, every transaction accepted by ProcessTransaction eventually has a
\* journal status other than pending.
C29_EventuallyFinal ==
    \A t \in TxIDs :
        (t \in DOMAIN journal) ~>
            (t \in DOMAIN journal /\ journal[t].status # TransactionStatusPending)

\* C29 witness: two accepted transactions have left pending, one completed and
\* one failed, and nothing is queued or in flight any more.
C29_Witness ==
    /\ Quiescent
    /\ DOMAIN journal = TxIDs
    /\ \E t, u \in TxIDs :
           /\ journal[t].status = TransactionStatusCompleted
           /\ journal[u].status = TransactionStatusFailed
           /\ outcome[t] = "acked" /\ outcome[u] = "nacked"

\* C30: processing one delivered message ends after a bounded number of
\* UpdateBalance calls whatever the other processors do: the delivery runs at
\* most maxRetries attempts, an attempt makes at most three UpdateBalance
\* calls (debit, credit, compensation) and never repeats one, and every step
\* taken for the delivery, lost UpdateBalance calls included, brings it
\* strictly closer to its acknowledgement.
C30_BoundedProcessing ==
    /\ [](\A p \in Procs :
            /\ pc[p] # "idle" => attempt[p] \in 1..maxRetries
            /\ Remaining(p) >= 0)
    /\ [][\A p \in Procs :
            (pc[p] # "idle" /\ <<pc[p], attempt[p]>> # <<pc'[p], attempt'[p]>>) =>
                \/ pc'[p] = "idle" /\ pc[p] \in {"ack", "nack"}
                \/ /\ pc'[p] # "idle"
                   /\ Remaining(p)' < Remaining(p)
                   /\ attempt'[p] = attempt[p] =>
                        PcRank[pc'[p]] < PcRank[pc[p]]]_vars

\* C30 witness: a delivery is in its last attempt after it lost an
\* UpdateBalance call in each of the two attempts before.
C30_Witness ==
    \E p \in Procs :
        /\ attempt[p] = maxRetries
        /\ pc[p] \in CASPcs
        /\ journal[msg[p].id].errorMessage = ErrConcurrentUpdate
        /\ Cardinality({c \in casLost : c[1] = CASAccount(p)}) >= 2

\* C31: a transfer whose processing a crash interrupted between the source
\* debit and the destination credit is resolved once its redelivered message
\* has been processed: with no writer on its accounts but the processor, the
\* transfer has by then been applied exactly once (source minus amount,
\* destination plus amount) or not at all; the debited amount is not missing
\* and the source is not debited twice.
C31_CrashedTransferResolved ==
    \A p \in Procs :
        (/\ pc[p] \in {"ack", "nack"}
         /\ msg[p].type = TransactionTypeTransfer
         /\ calls.deacts = 0) =>
            LET e == eff[msg[p].id]
            IN  \/ e[msg[p].from] = 0 - msg[p].amount /\ e[msg[p].to] = msg[p].amount
                \/ e[msg[p].from] = 0 /\ e[msg[p].to] = 0

C33_DepositChecksInOrder ==
    [][\A p \in Procs :
         (msg[p].type = TransactionTypeDeposit /\ pc'[p] # pc[p]) =>
            LET a == GetByID(accounts, msg[p].to)
                missing == a = NoAccount
                inactive == ~missing /\ a.status # "active"
                foreign == ~missing /\ a.currency # msg[p].currency
            IN  /\ pc[p] = "handler" =>
                     /\ missing => err'[p] = ErrAccountNotFound
                     /\ inactive => err'[p] = ErrAccountInactive
                     /\ (foreign /\ ~inactive) => err'[p] = ErrCurrencyMismatch
                     /\ (missing \/ inactive \/ foreign) =>
                            pc'[p] = "mark_failed" /\ accounts' = accounts
                     /\ ~(missing \/ inactive \/ foreign) =>
                            pc'[p] = "deposit_update" /\ accounts' = accounts
                /\ pc[p] = "mark_failed" =>
                     /\ journal'[msg[p].id].status = TransactionStatusFailed
                     /\ journal'[msg[p].id].errorMessage = err[p]
                     /\ accounts' = accounts]_vars

\* C33 witness: a deposit in a currency its target does not have reached the
\* target deactivated; the attempt ended with account is inactive, the journal
\* holds the transaction failed with that error and the balance is the
\* opening one.
C33_Witness ==
    \E p \in Procs :
        /\ pc[p] = "nack"
        /\ msg[p].type = TransactionTypeDeposit
        /\ msg[p].to \in AccIDs
        /\ msg[p].currency # accounts[msg[p].to].currency
        /\ accounts[msg[p].to].status # "active"
        /\ accounts[msg[p].to].balance = InitBalance[msg[p].to]
        /\ journal[msg[p].id].status = TransactionStatusFailed
        /\ journal[msg[p].id].errorMessage = ErrAccountInactive

\* C34: the writes of a transfer attempt that succeeds throughout are these
\* three and nothing else: the debit lowers the source's balance by the amount
\* and raises its version by 1, the credit raises the destination's balance by
\* the amount and its version by 1, and the status write makes the transaction
\* completed.  The debit leaves every account but the source alone, the credit
\* every account but the destination, the status write every account; the
\* debit and the credit leave the journal alone and the status write leaves
\* every other journal record alone.
C34_SuccessfulTransferFrame ==
    [][\A p \in Procs :
         (msg[p].type = TransactionTypeTransfer /\ pc'[p] # pc[p]) =>
            LET t == msg[p].id
                from == msg[p].from
                to == msg[p].to
            IN  /\ (pc[p] = "transfer_debit" /\ pc'[p] = "transfer_credit") =>
                     /\ accounts'[from].balance = accounts[from].balance - msg[p].amount
                     /\ accounts'[from].version = accounts[from].version + 1
                     /\ accounts'[from].status = accounts[from].status
                     /\ \A a \in AccIDs \ {from} : accounts'[a] = accounts[a]
                     /\ journal' = journal
                /\ (pc[p] = "transfer_credit" /\ pc'[p] = "mark_completed") =>
                     /\ accounts'[to].balance = accounts[to].balance + msg[p].amount
                     /\ accounts'[to].version = accounts[to].version + 1
                     /\ accounts'[to].status = accounts[to].status
                     /\ \A a \in AccIDs \ {to} : accounts'[a] = accounts[a]
                     /\ journal' = journal
                /\ pc[p] = "mark_completed" =>
                     /\ pc'[p] = "ack"
                     /\ journal'[t].status = TransactionStatusCompleted
                     /\ DOMAIN journal' = DOMAIN journal
                     /\ \A u \in DOMAIN journal \ {t} : journal'[u] = journal[u]
                     /\ accounts' = accounts
                /\ pc'[p] = "mark_completed" => pc[p] = "transfer_credit"]_vars

\* C34 witness: a transfer was completed by its first attempt beside another
\* journal record: its source is down by the amount, its destination up by
\* the amount, and each of the two accounts is at its second version.
C34_Witness ==
    \E p \in Procs : \E u \in DOMAIN journal :
        /\ pc[p] = "ack" /\ attempt[p] = 1
        /\ msg[p].type = TransactionTypeTransfer
        /\ u # msg[p].id
        /\ journal[msg[p].id].status = TransactionStatusCompleted
        /\ accounts[msg[p].from].balance = InitBalance[msg[p].from] - msg[p].amount
        /\ accounts[msg[p].to].balance = InitBalance[msg[p].to] + msg[p].amount
        /\ accounts[msg[p].from].version = 2
        /\ accounts[msg[p].to].version = 2

\* C35: a consumer handles one message at a time.  It takes a message in hand
\* only when it holds none, and at that moment every message delivered before
\* has been acknowledged or negatively acknowledged (every journal record is
\* still queued or has its acknowledgement); an attempt that follows a failed
\* attempt is for the same message; the message in hand is given up only by
\* its Ack or Nack.
C35_OneMessageAtATime ==
    [][\A p \in Procs :
         /\ (msg'[p] # msg[p] /\ msg'[p] # NoMsg) =>
              /\ pc[p] = "idle" /\ msg[p] = NoMsg
              /\ \A t \in DOMAIN journal :
                    \/ \E i \in 1..Len(queue) : queue[i].id = t
                    \/ outcome[t] \in {"acked", "nacked"}
         /\ (pc[p] = "mark_failed" /\ pc'[p] = "handler") =>
              msg'[p] = msg[p] /\ attempt'[p] = attempt[p] + 1
         /\ (msg[p] # NoMsg /\ msg'[p] # msg[p]) =>
              /\ pc[p] \in {"ack", "nack"}
              /\ outcome'[msg[p].id] \in {"acked", "nacked"}]_vars

\* C35 witness: the consumer is handling its second message, the first one
\* having been negatively acknowledged after its third attempt failed.
C35_Witness ==
    /\ pc["p1"] = "handler"
    /\ msg["p1"].id = TxSeq[2]
    /\ outcome[TxSeq[1]] = "nacked"
    /\ journal[TxSeq[1]].status = TransactionStatusFailed

\* C36: DeactivateAccount never changes a balance.  Its write either makes the
\* account inactive, leaving the stored balance as it is and raising the
\* version by 1, or, when the account was written between its read and its
\* write, reports a concurrent update and changes nothing; the balance it
\* read earlier is never written over a newer one.
C36_DeactivateKeepsBalance ==
    [][(deact.pc = "update" /\ deact'.pc = "idle") =>
         LET id == deact.account.id
         IN  /\ \A a \in AccIDs : accounts'[a].balance = accounts[a].balance
             /\ \A a \in AccIDs \ {id} : accounts'[a] = accounts[a]
             /\ deact'.res \in {OK, ErrConcurrentUpdate}
             /\ deact'.res = OK =>
                  /\ accounts'[id].status = "inactive"
                  /\ accounts'[id].version = accounts[id].version + 1
             /\ deact'.res = ErrConcurrentUpdate => accounts' = accounts
             /\ accounts[id].version # deact.account.version =>
                  deact'.res = ErrConcurrentUpdate
             /\ accounts[id].balance # deact.account.balance =>
                  deact'.res = ErrConcurrentUpdate]_vars

\* C36 witness: a deactivation failed with concurrent update because a balance
\* update had been committed on the account after it was read: the account is
\* active at its second version with the new balance, no other account was
\* written.
C36_Witness ==
    /\ deact.pc = "idle" /\ deact.res = ErrConcurrentUpdate
    /\ \E a \in AccIDs :
          /\ accounts[a].status = "active"
          /\ accounts[a].version = 2
          /\ accounts[a].balance # InitBalance[a]
          /\ \A b \in AccIDs \ {a} : accounts[b].version = 1

\* C37: no balance write is applied to an account that is not active.  A
\* balance changes only on an account that is active when it is written, and
\* an updateBalance that reaches an account deactivated since the processor
\* read it changes nothing and fails with concurrent update.
C37_NoWriteOnInactive ==
    [][/\ \A a \in AccIDs :
            accounts'[a].balance # accounts[a].balance =>
                accounts[a].status = "active" /\ accounts'[a].status = "active"
       /\ \A p \in Procs :
            (CASStep(p) /\ accounts[CASAccount(p)].status # "active") =>
                /\ accounts' = accounts
                /\ err'[p] = ErrConcurrentUpdate
                /\ pc'[p] \in {"mark_failed", "transfer_rollback"}]_vars

\* C37 witness: the first attempt of a deposit read its account active, the
\* account was deactivated, and the deposit's updateBalance failed with
\* concurrent update: the account is inactive at its second version with its
\* opening balance.
C37_Witness ==
    \E p \in Procs :
        /\ pc[p] = "mark_failed" /\ attempt[p] = 1
        /\ msg[p].type = TransactionTypeDeposit
        /\ err[p] = ErrConcurrentUpdate
        /\ toAccount[p].status = "active"
        /\ accounts[msg[p].to].status = "inactive"
        /\ accounts[msg[p].to].version = 2
        /\ accounts[msg[p].to].balance = InitBalance[msg[p].to]

\* C38: when the publish fails during acceptance, ProcessTransaction returns
\* the publish error, the record it wrote is set to failed with that error as
\* its message, every other record is left alone and nothing is put on the
\* queue.  So no call that returned an error leaves a pending record behind:
\* the record of the last call, if that call returned an error and wrote one,
\* is failed with the publish error, has no message and is in no consumer's
\* hands; and every pending record has its message queued or in a consumer's
\* hands, or is the record of the call still going on.
C38_PublishFailureMarksFailed ==
    /\ [](/\ (accept.pc = "idle" /\ accept.res \notin {"none", OK}) =>
                LET id == accept.request.id
                IN  id \in DOMAIN journal =>
                       /\ accept.res = ErrPublish
                       /\ journal[id].status = TransactionStatusFailed
                       /\ journal[id].errorMessage = ErrPublish
                       /\ \A i \in 1..Len(queue) : queue[i].id # id
                       /\ \A p \in Procs : msg[p].id # id
          /\ \A t \in DOMAIN journal :
                journal[t].status = TransactionStatusPending =>
                   \/ \E i \in 1..Len(queue) : queue[i].id = t
                   \/ \E p \in Procs : pc[p] # "idle" /\ msg[p].id = t
                   \/ accept.pc = "publish" /\ accept.request.id = t)
    /\ [][(accept.pc = "publish" /\ accept'.pc = "idle" /\ accept'.res # OK) =>
             LET id == accept.request.id
             IN  /\ accept'.res = ErrPublish
                 /\ journal'[id].status = TransactionStatusFailed
                 /\ journal'[id].errorMessage = ErrPublish
                 /\ DOMAIN journal' = DOMAIN journal
                 /\ \A u \in DOMAIN journal \ {id} : journal'[u] = journal[u]
                 /\ queue' = queue]_vars

\* C38 witness: the second call of ProcessTransaction returned the publish
\* error while the message of the first is in the consumer's hands: its record
\* is failed with the publish error and the queue is empty.
C38_Witness ==
    /\ accept.pc = "idle" /\ accept.res = ErrPublish
    /\ accept.request.id = TxSeq[2]
    /\ journal[TxSeq[2]].status = TransactionStatusFailed
    /\ journal[TxSeq[2]].errorMessage = ErrPublish
    /\ queue = <<>>
    /\ pc["p1"] # "idle" /\ msg["p1"].id = TxSeq[1]

\* C39: in every reachable state a completed journal record has processedAt
\* set and an empty errorMessage, a pending record has no processedAt, and a
\* failed or cancelled record has a non-empty errorMessage.
C39_RecordShape ==
    \A t \in DOMAIN journal :
        /\ journal[t].status = TransactionStatusCompleted =>
              journal[t].processedAt /\ journal[t].errorMessage = ""
        /\ journal[t].status = TransactionStatusPending =>
              ~journal[t].processedAt
        /\ journal[t].status \in {TransactionStatusFailed, TransactionStatusCancelled} =>
              journal[t].errorMessage # ""

\* C39 witness: the journal holds a completed record with processedAt set and
\* no message beside a cancelled one with its message and no processedAt.
C39_Witness ==
    \E t \in DOMAIN journal : \E u \in DOMAIN journal :
        /\ journal[t].status = TransactionStatusCompleted
        /\ journal[t].processedAt /\ journal[t].errorMessage = ""
        /\ journal[u].status = TransactionStatusCancelled
        /\ journal[u].errorMessage # "" /\ ~journal[u].processedAt

====
